---- MODULE Spec2Model ----
(***************************************************************************)
(* Model of the OCR endpoint perform_ocr (api/app/routes/ocr.py).          *)
(*                                                                         *)
(* One request is followed statement by statement: input validation, the   *)
(* inference call, the markup export, the accelerator cache flush, the     *)
(* rasterization of files[0], the per-page loop inside the temporary       *)
(* directory, the merge of the sorted single-page PDFs, the metadata patch *)
(* and the response.  Every call into a collaborator may raise.            *)
(*                                                                         *)
(* Strings that matter for ordering (file names and paths) are sequences   *)
(* of character codes, compared the way Python compares str.               *)
(***************************************************************************)
EXTENDS Integers, Sequences, FiniteSets, TLC

\* Largest number of pages / markup payloads considered.
MaxPages == 11

VARIABLES
    pc,            \* position of the request inside perform_ocr
    status,        \* HTTP status of the answer, 0 while the request runs
    detail,        \* detail of the HTTPException, "" when there is none
    exc,           \* the exception that ended the request, or NoExc
    content,       \* page images get_documents returned, over all uploaded files
    inferred,      \* predictor(content) has been called
    cacheFlushed,  \* torch.cuda.empty_cache() has been called
    xml_outputs,   \* markup payloads returned by out.export_as_xml()
    docs,          \* page images returned by DocumentFile.from_pdf
    scale,         \* <<numerator, denominator>> of scale = dpi / 72.0
    tmpdir,        \* "none", "open" or "removed"
    fs,            \* the file system: path -> file content
    created,       \* every path a file was ever created at
    i,             \* loop index of enumerate(zip(xml_outputs, docs))
    pdf_paths,     \* the list pdf_paths
    merged,        \* the document merger.write produced, or NoDoc
    patched,       \* the metadata patch has been written
    pageFailed,    \* a page conversion step has raised
    response       \* the Response returned, or NoResponse

vars == << pc, status, detail, exc, content, inferred, cacheFlushed, xml_outputs, docs,
           scale, tmpdir, fs, created, i, pdf_paths, merged, patched,
           pageFailed, response >>

----------------------------------------------------------------------------
(* Strings *)

\* str(n) for n >= 0, as character codes
RECURSIVE ToStr(_)
ToStr(n) == IF n < 10 THEN << 48 + n >> ELSE ToStr(n \div 10) \o << 48 + (n % 10) >>

JpgExt == << 46, 106, 112, 103 >>                                  \* ".jpg"
XmlExt == << 46, 120, 109, 108 >>                                  \* ".xml"
PdfExt == << 46, 112, 100, 102 >>                                  \* ".pdf"
MergedName == << 109, 101, 114, 103, 101, 100, 46, 112, 100, 102 >> \* "merged.pdf"

\* the name TemporaryDirectory() hands out ("/t")
TmpDirName == << 47, 116 >>

\* os.path.join(dir, name)
Join(dir, name) == dir \o << 47 >> \o name

ImgPath(k) == Join(TmpDirName, ToStr(k) \o JpgExt)
XmlPath(k) == Join(TmpDirName, ToStr(k) \o XmlExt)
PdfPath(k) == Join(TmpDirName, ToStr(k) \o PdfExt)
MergedPath == Join(TmpDirName, MergedName)

\* path lies inside directory dir
Under(dir, path) ==
    /\ Len(path) > Len(dir) + 1
    /\ SubSeq(path, 1, Len(dir)) = dir
    /\ path[Len(dir) + 1] = 47

\* a < b for Python str: code point by code point, a proper prefix is smaller
RECURSIVE StrLess(_, _)
StrLess(a, b) ==
    IF a = << >> THEN b # << >>
    ELSE IF b = << >> THEN FALSE
    ELSE IF Head(a) # Head(b) THEN Head(a) < Head(b)
    ELSE StrLess(Tail(a), Tail(b))

RECURSIVE Insert(_, _)
Insert(x, s) ==
    IF s = << >> THEN << x >>
    ELSE IF StrLess(x, Head(s)) THEN << x >> \o s
    ELSE << Head(s) >> \o Insert(x, Tail(s))

\* sorted(list of str): stable, ascending by StrLess
RECURSIVE sorted(_)
sorted(s) ==
    IF s = << >> THEN << >>
    ELSE Insert(s[Len(s)], sorted(SubSeq(s, 1, Len(s) - 1)))

----------------------------------------------------------------------------
(* Values *)

NoExc == [type |-> "none", msg |-> ""]
NoResponse == [media_type |-> "none"]

\* messages a validation error can carry
ValueErrors == { "unsupported file format", "unknown architecture" }

dpi == 300
PointsPerInch == 72

\* resolution of an image rasterized with scale s (pypdfium2: scale 1 is 72 DPI)
RasterDpi(s) == (s[1] * PointsPerInch) \div s[2]

\* the dpi argument of HocrTransform
HocrDpiUnscaled == PointsPerInch
HocrDpi == 300

Min(a, b) == IF a < b THEN a ELSE b

\* number of iterations of zip(xml_outputs, docs)
ZipLen == Min(Len(xml_outputs), Len(docs))

(* Metadata: a Python dict is a function on the keys present; the value of *)
(* reader.metadata is [none |-> it is None, d |-> the dict otherwise].     *)
MetaKeys == { "/Producer", "/Creator", "/Title" }
MetaValue(k) == IF k = "/Producer" THEN "PyPDF2" ELSE IF k = "/Creator" THEN "scanner" ELSE "title"
EmptyDict == [k \in {} |-> ""]
MetaDicts == { [k \in D |-> MetaValue(k)] : D \in SUBSET MetaKeys }
Metadatas == { [none |-> FALSE, d |-> m] : m \in MetaDicts } \cup { [none |-> TRUE, d |-> EmptyDict] }

NoDoc == [kind |-> "pdf", pages |-> << >>, meta |-> [none |-> TRUE, d |-> EmptyDict]]

\* dict.update
Update(d, u) == [k \in (DOMAIN d) \cup (DOMAIN u) |-> IF k \in DOMAIN u THEN u[k] ELSE d[k]]

\* reader.metadata or {}
OrEmpty(m) == IF m.none THEN EmptyDict ELSE m.d

DocTRMeta == [k \in { "/Producer", "/Creator" } |-> "docTR"]

\* the info dictionary of a fresh PdfWriter()
WriterDefault == [k \in { "/Producer" } |-> "PyPDF2"]

----------------------------------------------------------------------------
(* Exceptions *)

\* "except ValueError as e: raise HTTPException(status_code=400, detail=str(e))"
ExceptValueErrorAsServerError(e) == [status |-> 500, detail |-> "Internal Server Error"]
ExceptValueError(e) == [status |-> 400, detail |-> e.msg]

\* an exception no handler catches leaves perform_ocr; the framework answers 500
UnhandledAsClientError(e) == [status |-> 400, detail |-> e.msg]
Unhandled(e) == [status |-> 500, detail |-> "Internal Server Error"]

\* what get_documents / init_predictor can raise
ValidationExcs == { [type |-> "ValueError", msg |-> m] : m \in ValueErrors }
OtherExcs == { [type |-> "RuntimeError", msg |-> "collaborator failed"] }

\* TemporaryDirectory.__exit__: the directory and all it holds are removed,
\* whether the block returned or raised
ExitTmpdirOnSuccessOnly(f, raised) ==
    IF raised THEN f
    ELSE [p \in { q \in DOMAIN f : ~Under(TmpDirName, q) } |-> f[p]]
ExitTmpdir(f, raised) == [p \in { q \in DOMAIN f : ~Under(TmpDirName, q) } |-> f[p]]

\* f with the file at path p (over)written with content c
WriteFile(f, p, c) == [q \in (DOMAIN f) \cup {p} |-> IF q = p THEN c ELSE f[q]]

\* the request ends with exception e, raised outside the with block
Fail(e, answer) ==
    /\ pc' = "done"
    /\ exc' = e
    /\ status' = answer.status
    /\ detail' = answer.detail
    /\ UNCHANGED << content, xml_outputs, docs, scale, tmpdir, fs, created, i, pdf_paths,
                    merged, patched, pageFailed, response >>

\* the request ends with exception e, raised inside the with block
FailInTmpdir(e) ==
    /\ pc' = "done"
    /\ exc' = e
    /\ status' = Unhandled(e).status
    /\ detail' = Unhandled(e).detail
    /\ tmpdir' = "removed"
    /\ fs' = ExitTmpdir(fs, TRUE)
    /\ UNCHANGED << content, inferred, cacheFlushed, xml_outputs, docs, scale, created, i,
                    pdf_paths, merged, patched, response >>

----------------------------------------------------------------------------
(* The request *)

Init ==
    /\ pc = "get_documents"
    /\ status = 0
    /\ detail = ""
    /\ exc = NoExc
    /\ content = << >>
    /\ inferred = FALSE
    /\ cacheFlushed = FALSE
    /\ xml_outputs = << >>
    /\ docs = << >>
    /\ scale = << 0, 1 >>
    /\ tmpdir = "none"
    /\ fs = [p \in {} |-> NoDoc]
    /\ created = {}
    /\ i = 0
    /\ pdf_paths = << >>
    /\ merged = NoDoc
    /\ patched = FALSE
    /\ pageFailed = FALSE
    /\ response = NoResponse

\* content, filenames = await get_documents(files): the page images of all
\* uploaded files, those of files[0] first
GetDocuments ==
    /\ pc = "get_documents"
    /\ \/ \E n \in 0..MaxPages :
          /\ content' = [k \in 1..n |-> [page |-> k - 1]]
          /\ pc' = "init_predictor"
          /\ UNCHANGED << status, detail, exc, xml_outputs, docs, scale, tmpdir, fs,
                          created, i, pdf_paths, merged, patched, pageFailed, response >>
       \/ \E e \in ValidationExcs : Fail(e, ExceptValueError(e))
       \/ \E e \in OtherExcs : Fail(e, Unhandled(e))
    /\ UNCHANGED << inferred, cacheFlushed >>

\* predictor = init_predictor(request)
InitPredictor ==
    /\ pc = "init_predictor"
    /\ \/ /\ pc' = "predict"
          /\ UNCHANGED << content, status, detail, exc, xml_outputs, docs, scale, tmpdir, fs,
                          created, i, pdf_paths, merged, patched, pageFailed, response >>
       \/ \E e \in ValidationExcs : Fail(e, ExceptValueError(e))
       \/ \E e \in OtherExcs : Fail(e, Unhandled(e))
    /\ UNCHANGED << inferred, cacheFlushed >>

\* out = predictor(content)
Predict ==
    /\ pc = "predict"
    /\ inferred' = TRUE
    /\ \/ /\ pc' = "export"
          /\ UNCHANGED << content, status, detail, exc, xml_outputs, docs, scale, tmpdir, fs,
                          created, i, pdf_paths, merged, patched, pageFailed, response >>
       \/ \E e \in OtherExcs : Fail(e, Unhandled(e))
    /\ UNCHANGED cacheFlushed

\* xml_outputs = out.export_as_xml(): one (bytes, tree) pair per page of
\* content, in the order of content
ExportAsXml ==
    /\ pc = "export"
    /\ \/ /\ xml_outputs' = [k \in 1..Len(content) |-> << content[k].page, content[k].page >>]
          /\ pc' = "empty_cache"
          /\ UNCHANGED << content, status, detail, exc, docs, scale, tmpdir, fs, created, i,
                             pdf_paths, merged, patched, pageFailed, response >>
       \/ \E e \in OtherExcs : Fail(e, Unhandled(e))
    /\ UNCHANGED << inferred, cacheFlushed >>

\* torch.cuda.empty_cache()
EmptyCache ==
    /\ pc = "empty_cache"
    /\ cacheFlushed' = TRUE
    /\ pc' = "from_pdf"
    /\ UNCHANGED << content, status, detail, exc, inferred, xml_outputs, docs, scale, tmpdir, fs,
                    created, i, pdf_paths, merged, patched, pageFailed, response >>

\* file_bytes = files[0].read(); dpi = 300; scale = dpi / 72.0;
\* docs = DocumentFile.from_pdf(file_bytes, scale=scale); pdf_paths = []
\* files[0] holds the first n pages of content
FromPdf ==
    /\ pc = "from_pdf"
    /\ \/ \E n \in 0..Len(content) :
             LET sc == << dpi, PointsPerInch >> IN
             /\ scale' = sc
             /\ docs' = [k \in 1..n |-> [page |-> content[k].page, dpi |-> RasterDpi(sc)]]
             /\ pdf_paths' = << >>
             /\ pc' = "tmpdir"
             /\ UNCHANGED << content, status, detail, exc, xml_outputs, tmpdir, fs, created, i,
                             merged, patched, pageFailed, response >>
       \/ \E e \in OtherExcs : Fail(e, Unhandled(e))
    /\ UNCHANGED << inferred, cacheFlushed >>

\* where the for loop goes once pages 0 .. k-1 are done
LoopPc(k) == IF k < ZipLen THEN "save_img" ELSE "merge"

\* with TemporaryDirectory() as tmpdir: for i, (xml, img) in enumerate(zip(...))
EnterTmpdir ==
    /\ pc = "tmpdir"
    /\ tmpdir' = "open"
    /\ i' = 0
    /\ pc' = LoopPc(0)
    /\ UNCHANGED << content, status, detail, exc, inferred, cacheFlushed, xml_outputs, docs, scale,
                    fs, created, pdf_paths, merged, patched, pageFailed, response >>

\* Image.fromarray(img).save(img_path, format="JPEG", quality=90)
SaveImage ==
    /\ pc = "save_img"
    /\ \/ /\ fs' = WriteFile(fs, ImgPath(i), [kind |-> "jpg", img |-> docs[i + 1]])
          /\ created' = created \cup { ImgPath(i) }
          /\ pc' = "write_xml"
          /\ UNCHANGED << status, detail, exc, tmpdir, pageFailed >>
       \/ /\ \E e \in OtherExcs : FailInTmpdir(e)
          /\ pageFailed' = TRUE
    /\ UNCHANGED << content, inferred, cacheFlushed, xml_outputs, docs, scale, i, pdf_paths, merged,
                    patched, response >>

\* with open(xml_path, "w") as f: f.write(xml[0].decode())
WriteXml ==
    /\ pc = "write_xml"
    /\ \/ /\ fs' = WriteFile(fs, XmlPath(i), [kind |-> "xml", xml |-> xml_outputs[i + 1][1]])
          /\ created' = created \cup { XmlPath(i) }
          /\ pc' = "to_pdf"
          /\ UNCHANGED << status, detail, exc, tmpdir, pageFailed >>
       \/ /\ \E e \in OtherExcs : FailInTmpdir(e)
          /\ pageFailed' = TRUE
    /\ UNCHANGED << content, inferred, cacheFlushed, xml_outputs, docs, scale, i, pdf_paths, merged,
                    patched, response >>

\* the single-page PDF HocrTransform(hocr_filename, dpi).to_pdf(out, image) writes
HocrPage(f, k) ==
    [img |-> f[ImgPath(k)].img, xml |-> f[XmlPath(k)].xml, dpi |-> HocrDpi]

\* hocr = HocrTransform(hocr_filename=xml_path, dpi=300)
\* hocr.to_pdf(out_filename=pdf_path, image_filename=img_path)
\* pdf_paths.append(pdf_path)
ToPdf ==
    /\ pc = "to_pdf"
    /\ \/ /\ fs' = WriteFile(fs, PdfPath(i),
                     [kind |-> "pdf", pages |-> << HocrPage(fs, i) >>,
                      meta |-> [none |-> TRUE, d |-> EmptyDict]])
          /\ created' = created \cup { PdfPath(i) }
          /\ pdf_paths' = Append(pdf_paths, PdfPath(i))
          /\ i' = i + 1
          /\ pc' = LoopPc(i + 1)
          /\ UNCHANGED << status, detail, exc, tmpdir, pageFailed >>
       \/ /\ \E e \in OtherExcs : FailInTmpdir(e)
          /\ pageFailed' = TRUE
          /\ UNCHANGED << i, pdf_paths >>
    /\ UNCHANGED << content, inferred, cacheFlushed, xml_outputs, docs, scale, merged, patched,
                    response >>

\* the pages of the files at paths, in the order of paths
RECURSIVE Concat(_, _)
Concat(f, paths) ==
    IF paths = << >> THEN << >>
    ELSE f[Head(paths)].pages \o Concat(f, Tail(paths))

\* merger = PdfMerger(); for pdf in sorted(pdf_paths): merger.append(pdf)
\* merger.write(merged_pdf_path); merger.close()
Merge ==
    /\ pc = "merge"
    /\ \/ \E m \in Metadatas :
             LET doc == [kind |-> "pdf", pages |-> Concat(fs, sorted(pdf_paths)), meta |-> m] IN
             /\ fs' = WriteFile(fs, MergedPath, doc)
             /\ created' = created \cup { MergedPath }
             /\ merged' = doc
             /\ pc' = "patch"
             /\ UNCHANGED << status, detail, exc, tmpdir >>
       \/ /\ \E e \in OtherExcs : FailInTmpdir(e)
          /\ UNCHANGED merged
    /\ UNCHANGED << content, inferred, cacheFlushed, xml_outputs, docs, scale, i, pdf_paths, patched,
                    pageFailed, response >>

\* reader = PdfReader(merged); writer = PdfWriter(); every page is added;
\* metdata = reader.metadata or {}; metdata.update(producer, creator);
\* writer.add_metadata(metdata)
PatchedDropsOtherFields(doc) ==
    [kind |-> "pdf", pages |-> doc.pages, meta |-> [none |-> FALSE, d |-> DocTRMeta]]
Patched(doc) ==
    [kind |-> "pdf",
     pages |-> doc.pages,
     meta |-> [none |-> FALSE, d |-> Update(WriterDefault, Update(OrEmpty(doc.meta), DocTRMeta))]]

\* the metadata patch, written back to merged_pdf_path
PatchMetadata ==
    /\ pc = "patch"
    /\ \/ /\ fs' = WriteFile(fs, MergedPath, Patched(fs[MergedPath]))
          /\ patched' = TRUE
          /\ pc' = "return"
          /\ UNCHANGED << status, detail, exc, tmpdir >>
       \/ /\ \E e \in OtherExcs : FailInTmpdir(e)
          /\ UNCHANGED patched
    /\ UNCHANGED << content, inferred, cacheFlushed, xml_outputs, docs, scale, created, i, pdf_paths,
                    merged, pageFailed, response >>

\* merged_bytes = f.read(); return Response(content=merged_bytes, media_type="application/pdf")
Return ==
    /\ pc = "return"
    /\ response' = [media_type |-> "application/pdf", content |-> fs[MergedPath]]
    /\ status' = 200
    /\ tmpdir' = "removed"
    /\ fs' = ExitTmpdir(fs, FALSE)
    /\ pc' = "done"
    /\ UNCHANGED << content, detail, exc, inferred, cacheFlushed, xml_outputs, docs, scale, created,
                    i, pdf_paths, merged, patched, pageFailed >>

Next ==
    \/ GetDocuments
    \/ InitPredictor
    \/ Predict
    \/ ExportAsXml
    \/ EmptyCache
    \/ FromPdf
    \/ EnterTmpdir
    \/ SaveImage
    \/ WriteXml
    \/ ToPdf
    \/ Merge
    \/ PatchMetadata
    \/ Return

Spec == Init /\ [][Next]_vars

----------------------------------------------------------------------------
(* Properties *)

\* merger.write has produced the merged document
MergeDone == MergedPath \in created

\* the request has returned a PDF
ReturnedPdf == pc = "done" /\ status = 200 /\ response.media_type = "application/pdf"

\* C1: the single-page PDFs are merged in ascending numeric page index:
\* position k of the merged PDF holds the page built from source page k,
\* also for documents of ten pages and more.
C1_MergedInNumericPageOrder ==
    MergeDone => \A k \in 1..Len(merged.pages) : merged.pages[k].img.page = k - 1

\* C2: a returned PDF has as many pages as the input document has page
\* images, and its page k is built from image k paired with markup k.
C2_PageCountAndPairing ==
    ReturnedPdf =>
        /\ Len(response.content.pages) = Len(docs)
        /\ \A k \in 1..Len(response.content.pages) :
              /\ response.content.pages[k].img.page = k - 1
              /\ response.content.pages[k].xml = k - 1

\* C3: when the number of markup payloads differs from the number of page
\* images of a document that has pages (and no collaborator raises), the
\* request is rejected as invalid input and no PDF is returned.
C3_CountMismatchRejected ==
    (pc = "done" /\ exc = NoExc /\ Len(docs) >= 1 /\ Len(xml_outputs) # Len(docs)) =>
        (status = 400 /\ response.media_type = "none")

\* C4: when the document has zero pages (and no collaborator raises), the
\* request is rejected as invalid input and no PDF is returned.
C4_ZeroPagesRejected ==
    (pc = "done" /\ exc = NoExc /\ Len(docs) = 0) =>
        (status = 400 /\ response.media_type = "none")

\* C5: no request ends with the inference call started and the accelerator
\* cache not flushed.
C5_CacheFlushedAfterInference ==
    (pc = "done" /\ inferred) => cacheFlushed

\* C6: every intermediate file is created inside the temporary directory,
\* only while that directory exists, and once the request has ended the
\* directory is gone and no intermediate file is left, on the successful
\* return as on every exception.
C6_TempAreaCleanedOnEveryExit ==
    /\ \A p \in created : Under(TmpDirName, p)
    /\ DOMAIN fs # {} => tmpdir = "open"
    /\ created # {} => tmpdir # "none"
    /\ pc = "done" => (DOMAIN fs = {} /\ tmpdir # "open")

\* C6 witness: a request that failed in the middle of a page, after files
\* had been written, has ended.
C6_Witness ==
    pc = "done" /\ exc # NoExc /\ pageFailed /\ Cardinality(created) >= 2 /\ tmpdir = "removed"

\* C7: a validation error of get_documents or init_predictor is answered
\* with status 400 carrying the error message; no inference call was made,
\* no temporary file was created and no PDF is returned.
C7_ValidationErrorIs400 ==
    exc.type = "ValueError" =>
        /\ pc = "done"
        /\ status = 400
        /\ detail = exc.msg
        /\ exc.msg \in ValueErrors
        /\ ~inferred
        /\ ~cacheFlushed
        /\ created = {}
        /\ tmpdir = "none"
        /\ response.media_type = "none"

\* C7 witness: a request ended by a validation error.
C7_Witness == pc = "done" /\ exc.type = "ValueError" /\ status = 400

\* C8: when the conversion of a page fails the request ends with a server
\* error: the merge is never reached and no response is returned, so no
\* partial document is.
C8_PageFailureFailsRequest ==
    pageFailed =>
        /\ pc = "done"
        /\ status = 500
        /\ ~MergeDone
        /\ merged = NoDoc
        /\ response.media_type = "none"

\* C8 witness: a page failed after earlier pages had been converted.
C8_Witness == pageFailed /\ Len(pdf_paths) >= 2 /\ Len(pdf_paths) < ZipLen

\* the document as patched: in the file before the return, in the response after
OutDoc == IF pc = "return" THEN fs[MergedPath] ELSE response.content

\* C9: the metadata patch happens only after the merge; the patched
\* document has producer and creator "docTR", every other field of the
\* merged document with its value, and the pages of the merged document in
\* the same order.
C9_MetadataPatch ==
    patched =>
        /\ MergeDone
        /\ pc \in { "return", "done" }
        /\ OutDoc.meta.d["/Producer"] = "docTR"
        /\ OutDoc.meta.d["/Creator"] = "docTR"
        /\ \A k \in (DOMAIN OrEmpty(merged.meta)) \ { "/Producer", "/Creator" } :
              k \in DOMAIN OutDoc.meta.d /\ OutDoc.meta.d[k] = merged.meta.d[k]
        /\ OutDoc.pages = merged.pages

\* C9 witness: a merged document of several pages that carried a title and
\* a foreign producer has been patched.
C9_Witness ==
    /\ patched
    /\ ~merged.meta.none
    /\ DOMAIN merged.meta.d = MetaKeys
    /\ Len(merged.pages) >= 2
    /\ pc = "done"

\* the pages of every PDF there is: in the files and in the response
AllPdfPages ==
    UNION { { fs[p].pages[k] : k \in 1..Len(fs[p].pages) } : p \in { q \in DOMAIN fs : fs[q].kind = "pdf" } }
    \cup (IF response.media_type = "application/pdf"
          THEN { response.content.pages[k] : k \in 1..Len(response.content.pages) }
          ELSE {})

\* C10: every page is rendered with an overlay DPI equal to the DPI its
\* image was rasterized at, which is 300.
C10_SameDpi ==
    /\ \A k \in 1..Len(docs) : docs[k].dpi = RasterDpi(scale) /\ docs[k].dpi = 300
    /\ \A pg \in AllPdfPages : pg.dpi = pg.img.dpi /\ pg.dpi = 300

\* C10 witness: a returned document of several rendered pages.
C10_Witness == ReturnedPdf /\ Cardinality(AllPdfPages) >= 2

====
